---------------------------- MODULE Spec2Model ----------------------------
(***************************************************************************)
(* Model of HistoricalWeather (src/main.py): the HistoricalTemps dataset   *)
(* class (construction, payload load, start/end setters, derived queries)  *)
(* and the interactive menu session that holds two dataset slots.          *)
(*                                                                         *)
(* Three specifications share the definitions of the class:                *)
(*   Spec     the interactive session (menu loop, slot one and slot two)   *)
(*   SpecObj  one dataset object driven call by call (constructor,         *)
(*            start setter, end setter)                                    *)
(*   SpecFn   the derived queries applied to constructed datasets          *)
(*                                                                         *)
(* Encodings.  Python's None is the record None.  A temperature is an      *)
(* optional number: <<>> is JSON null, <<v>> is the number v.  A raised    *)
(* exception is a record [type, cause]; NoExc means normal return.  A call *)
(* returns [exc, self, val].  Date strings are never parsed by the code,   *)
(* they are passed through to the archive; they are day numbers here so    *)
(* that the order start <= end can be stated.  Keyboard input is a tuple   *)
(* of one-character strings.                                               *)
(***************************************************************************)
EXTENDS Integers, Sequences, FiniteSets, TLC

VARIABLES
    dataset_one,   \* menu(): slot one, None or a dataset
    dataset_two,   \* menu(): slot two, None or a dataset
    pc,            \* session: "menu" (at the prompt), "exited", "crashed"
    inp,           \* session: the text typed at the last menu prompt
    out,           \* session: what the last option printed, [msg, exc]
    self,          \* SpecObj / SpecFn: the dataset object, None before construction
    call,          \* SpecObj / SpecFn: the last call made on the object
    ret            \* SpecObj / SpecFn: its outcome, [exc, val]

vars == <<dataset_one, dataset_two, pc, inp, out, self, call, ret>>
sessionVars == <<dataset_one, dataset_two, pc, inp, out>>
objVars == <<self, call, ret>>

---------------------------------------------------------------------------
(* Bounds of the model *)

MaxDate == 2      \* dates are 1..MaxDate
MaxLen == 3       \* SpecFn: longest array in an archive response
MaxTemp == 2      \* SpecFn: temperatures are 0..MaxTemp
MaxN == 4         \* SpecFn: num_days ranges over -MaxN..MaxN

(* Program constants: the default range of __init__, "1950-08-13" and      *)
(* "2023-08-25", as day numbers.                                           *)
DefaultStart == 1
DefaultEnd == 2

Dates == 1..MaxDate

Min(a, b) == IF a <= b THEN a ELSE b
Max(a, b) == IF a >= b THEN a ELSE b

---------------------------------------------------------------------------
(* Python values and exceptions *)

None == [none |-> TRUE]

NoExc == [type |-> "none", cause |-> "none"]
Raise(t) == [type |-> t, cause |-> "none"]
RaiseFrom(t, e) == [type |-> t, cause |-> e.type]

(* isinstance(e, cls) for the exception classes the program meets:         *)
(* KeyError is a LookupError, json.JSONDecodeError is a ValueError, and    *)
(* everything is an Exception.                                             *)
IsInstance(e, cls) ==
    /\ e # NoExc
    /\ \/ cls = "Exception"
       \/ e.type = cls
       \/ cls = "LookupError" /\ e.type = "KeyError"
       \/ cls = "ValueError" /\ e.type = "JSONDecodeError"

Null == <<>>
Num(v) == <<v>>

---------------------------------------------------------------------------
(* Collaborators *)

(* pgeocode: one postal code per class of answer.  "98101" resolves;      *)
(* "00000" is unknown to the database (a row of NaN); for "" the query    *)
(* yields an empty result.                                                *)
Zips == {"98101", "00000", ""}

query_postal_code(zip_code) ==
    CASE zip_code = "98101" ->
           [empty |-> FALSE, latitude |-> "47.61", longitude |-> "-122.33",
            place_name |-> "Seattle"]
      [] zip_code = "00000" ->
           [empty |-> FALSE, latitude |-> "NaN", longitude |-> "NaN",
            place_name |-> "NaN"]
      [] OTHER ->
           [empty |-> TRUE, latitude |-> "NaN", longitude |-> "NaN",
            place_name |-> "NaN"]

(* The archive's answer to one GET.  kind "ok" is a body of the documented *)
(* shape; the others are the three ways the load fails.                    *)
Response(kind, time, temps) ==
    [kind |-> kind, time |-> time, temperature_2m_max |-> temps]

FailedResponses ==
    { Response("connection_error", <<>>, <<>>),
      Response("bad_json", <<>>, <<>>),
      Response("no_daily", <<>>, <<>>) }

(* The responses the session and the object specification draw from: the   *)
(* failures, an empty series, the series 60, 75, 50 and a series with a    *)
(* null temperature.                                                       *)
OkResponses ==
    { Response("ok", <<>>, <<>>),
      Response("ok", <<1, 2, 3>>, <<Num(60), Num(75), Num(50)>>),
      Response("ok", <<1, 2>>, <<Num(60), Null>>) }

ArchiveResponses == FailedResponses \cup OkResponses

---------------------------------------------------------------------------
(* class HistoricalTemps *)

zip_to_loc_info(zip_code) ==
    LET location == query_postal_code(zip_code)
    IN  IF location.empty
        THEN <<"None", "None", "None">>
        ELSE <<location.latitude, location.longitude, location.place_name>>

(* math.isnan: a TypeError for None, else whether the float is NaN *)
math_isnan(x) ==
    IF x = "None"
    THEN [exc |-> Raise("TypeError"), val |-> FALSE]
    ELSE [exc |-> NoExc, val |-> (x = "NaN")]

(* list(zip(dates, temps)): pairs up to the shorter length *)
Zip(a, b) == [i \in 1..Min(Len(a), Len(b)) |-> <<a[i], b[i]>>]

_convert_json_to_list(data) ==
    IF data.kind = "bad_json"
    THEN [exc |-> Raise("JSONDecodeError"), val |-> <<>>]
    ELSE IF data.kind = "no_daily"
    THEN [exc |-> Raise("KeyError"), val |-> <<>>]
    ELSE [exc |-> NoExc, val |-> Zip(data.time, data.temperature_2m_max)]

(* The request parameters that vary (daily and timezone are fixed). *)
Params(obj) ==
    [latitude |-> obj.lat, longitude |-> obj.lon,
     start_date |-> obj.start, end_date |-> obj.end]

(* _load_temps with the archive answering resp.  loaded_for is a history   *)
(* field: the parameters of the request whose answer is in temp_list.      *)
_load_temps(obj, resp) ==
    LET r == _convert_json_to_list(resp)
    IN  IF resp.kind = "connection_error"
        THEN [exc |-> Raise("ConnectionError"), self |-> obj]
        ELSE IF r.exc # NoExc
        THEN [exc |-> r.exc, self |-> obj]
        ELSE [exc |-> NoExc,
              self |-> [obj EXCEPT !.temp_list = r.val,
                                   !.temp_list_is_none = FALSE,
                                   !.loaded_for = Params(obj)]]

(* __init__(zip_code, start, end): val is the new object, or None when the *)
(* constructor raises.                                                     *)
__init__(zip_code, start, end, resp) ==
    LET loc == zip_to_loc_info(zip_code)
        nanLat == math_isnan(loc[1])
        nanLon == math_isnan(loc[2])
        obj == [zip_code |-> zip_code, start |-> start, end |-> end,
                lat |-> loc[1], lon |-> loc[2], loc_name |-> loc[3],
                temp_list |-> <<>>, temp_list_is_none |-> TRUE,
                loaded_for |-> None]
        loaded == _load_temps(obj, resp)
    IN  IF nanLat.exc # NoExc THEN [exc |-> nanLat.exc, val |-> None]
        ELSE IF nanLat.val THEN [exc |-> Raise("LookupError"), val |-> None]
        ELSE IF nanLon.exc # NoExc THEN [exc |-> nanLon.exc, val |-> None]
        ELSE IF nanLon.val THEN [exc |-> Raise("LookupError"), val |-> None]
        ELSE IF loaded.exc # NoExc THEN [exc |-> loaded.exc, val |-> None]
        ELSE [exc |-> NoExc, val |-> loaded.self]

is_data_loaded(obj) == ~obj.temp_list_is_none

(* Mutant of the start setter: the except clause does not restore _start. *)
start_setter_no_rollback(obj, value, resp) ==
    LET loaded == _load_temps([obj EXCEPT !.start = value], resp)
    IN  IF IsInstance(loaded.exc, "Exception")
        THEN [exc |-> RaiseFrom("LookupError", loaded.exc), self |-> loaded.self]
        ELSE [exc |-> NoExc, self |-> loaded.self]

(* start setter: the object after the assignment and the exception raised *)
start_setter(obj, value, resp) ==
    LET old_start == obj.start
        loaded == _load_temps([obj EXCEPT !.start = value], resp)
    IN  IF IsInstance(loaded.exc, "Exception")
        THEN [exc |-> RaiseFrom("LookupError", loaded.exc),
              self |-> [loaded.self EXCEPT !.start = old_start]]
        ELSE [exc |-> NoExc, self |-> loaded.self]

(* Mutant of the end setter: the except clause does not restore _end. *)
end_setter_no_rollback(obj, value, resp) ==
    LET loaded == _load_temps([obj EXCEPT !.end = value], resp)
    IN  IF IsInstance(loaded.exc, "Exception")
        THEN [exc |-> RaiseFrom("LookupError", loaded.exc), self |-> loaded.self]
        ELSE [exc |-> NoExc, self |-> loaded.self]

end_setter(obj, value, resp) ==
    LET old_end == obj.end
        loaded == _load_temps([obj EXCEPT !.end = value], resp)
    IN  IF IsInstance(loaded.exc, "Exception")
        THEN [exc |-> RaiseFrom("LookupError", loaded.exc),
              self |-> [loaded.self EXCEPT !.end = old_end]]
        ELSE [exc |-> NoExc, self |-> loaded.self]


---------------------------------------------------------------------------
(* Derived queries *)

HasNull(temp_list) == \E i \in 1..Len(temp_list) : temp_list[i][2] = Null

RECURSIVE SumTemps(_)
SumTemps(temp_list) ==
    IF temp_list = <<>> THEN 0
    ELSE temp_list[1][2][1] + SumTemps(Tail(temp_list))

(* average_temp: sum(...) raises TypeError on a null temperature (also for *)
(* an empty list the sum is 0 and the division raises).  The quotient is   *)
(* kept exact, as the pair [num, den].                                     *)
average_temp(obj) ==
    IF HasNull(obj.temp_list)
    THEN [exc |-> Raise("TypeError"), val |-> None]
    ELSE IF Len(obj.temp_list) = 0
    THEN [exc |-> Raise("ZeroDivisionError"), val |-> None]
    ELSE [exc |-> NoExc,
          val |-> [num |-> SumTemps(obj.temp_list), den |-> Len(obj.temp_list)]]

(* Mutant of extreme_days: the comparison is >= instead of >. *)
extreme_days_at_least(obj, threshold) ==
    IF HasNull(obj.temp_list)
    THEN [exc |-> Raise("TypeError"), self |-> obj, val |-> <<>>]
    ELSE [exc |-> NoExc, self |-> obj,
          val |-> SelectSeq(obj.temp_list, LAMBDA p : p[2][1] >= threshold)]

(* extreme_days: `temp > threshold` raises TypeError when temp is None.    *)
(* The comprehension builds a new list; self is the object afterwards.     *)
extreme_days(obj, threshold) ==
    IF HasNull(obj.temp_list)
    THEN [exc |-> Raise("TypeError"), self |-> obj, val |-> <<>>]
    ELSE [exc |-> NoExc, self |-> obj,
          val |-> SelectSeq(obj.temp_list, LAMBDA p : p[2][1] > threshold)]

(* sorted(..., key=lambda x: x[1], reverse=True): a stable sort, so an     *)
(* element goes after every element whose key is >= its own.               *)
(* Mutant of the sort: an ascending sort reversed, which turns the order   *)
(* of equal temperatures around.                                           *)
RECURSIVE InsertDescUnstable(_, _)
InsertDescUnstable(sorted, x) ==
    IF sorted = <<>> THEN <<x>>
    ELSE IF sorted[1][2][1] > x[2][1]
    THEN <<sorted[1]>> \o InsertDescUnstable(Tail(sorted), x)
    ELSE <<x>> \o sorted

RECURSIVE InsertDesc(_, _)
InsertDesc(sorted, x) ==
    IF sorted = <<>> THEN <<x>>
    ELSE IF sorted[1][2][1] >= x[2][1]
    THEN <<sorted[1]>> \o InsertDesc(Tail(sorted), x)
    ELSE <<x>> \o sorted

RECURSIVE SortedDesc(_)
SortedDesc(temp_list) ==
    IF temp_list = <<>> THEN <<>>
    ELSE InsertDesc(SortedDesc(SubSeq(temp_list, 1, Len(temp_list) - 1)),
                    temp_list[Len(temp_list)])

(* s[:n]: the first n elements, all of s when n > len(s); for n < 0 all    *)
(* but the last -n elements.                                               *)
Slice(s, n) ==
    IF n >= 0 THEN SubSeq(s, 1, Min(n, Len(s)))
    ELSE SubSeq(s, 1, Max(0, Len(s) + n))

(* top_x_days: comparing None with a key raises TypeError as soon as the   *)
(* sort compares anything, that is for two or more elements.  sorted()     *)
(* returns a new list; self is the object afterwards.                      *)
top_x_days(obj, num_days) ==
    IF HasNull(obj.temp_list) /\ Len(obj.temp_list) >= 2
    THEN [exc |-> Raise("TypeError"), self |-> obj, val |-> <<>>]
    ELSE [exc |-> NoExc, self |-> obj,
          val |-> Slice(SortedDesc(obj.temp_list), num_days)]

---------------------------------------------------------------------------
(* Keyboard input *)

Digits == <<"0", "1", "2", "3", "4", "5", "6", "7", "8", "9">>
IsDigit(c) == \E i \in 1..10 : Digits[i] = c
DigitVal(c) == (CHOOSE i \in 1..10 : Digits[i] = c) - 1

RECURSIVE Decimal(_)
Decimal(s) ==
    IF s = <<>> THEN 0
    ELSE 10 * Decimal(SubSeq(s, 1, Len(s) - 1)) + DigitVal(s[Len(s)])

AllDigits(s) == s # <<>> /\ \A i \in 1..Len(s) : IsDigit(s[i])

(* int(text), for text made of digits, "-" and letters: an optional sign   *)
(* and at least one digit, anything else is a ValueError.                  *)
int(text) ==
    IF AllDigits(text) THEN [exc |-> NoExc, val |-> Decimal(text)]
    ELSE IF text # <<>> /\ text[1] = "-" /\ AllDigits(Tail(text))
    THEN [exc |-> NoExc, val |-> 0 - Decimal(Tail(text))]
    ELSE [exc |-> Raise("ValueError"), val |-> 0]

(* float(text) on the same texts (no fraction or exponent is typed) *)
float(text) == int(text)

(* What is typed at the menu prompt: each option, numbers that are no      *)
(* option, and texts that are no number.                                   *)
MenuInputs ==
    { <<"1">>, <<"2">>, <<"3">>, <<"4">>, <<"5">>, <<"6">>, <<"7">>, <<"9">>,
      <<"8">>, <<"1", "0">>, <<"-", "1">>,
      <<>>, <<"q">>, <<"9", "x">> }

(* What is typed at the threshold prompt *)
ThresholdInputs == { <<"5", "5">>, <<"7", "5">>, <<"h", "o", "t">> }


---------------------------------------------------------------------------
(* Session functions.  Each returns [exc, ds, out]: the exception that     *)
(* escapes it (NoExc on normal return), the dataset it was given as it is  *)
(* afterwards (for create_dataset: the value returned), and what it        *)
(* printed last, [msg, exc, val].                                          *)

Out(msg, e, val) == [msg |-> msg, exc |-> e, val |-> val]
Escapes(e, ds) == [exc |-> e, ds |-> ds, out |-> Out("Traceback", e, None)]
Returns(ds, o) == [exc |-> NoExc, ds |-> ds, out |-> o]

create_dataset(zip_code, resp) ==
    LET r == __init__(zip_code, DefaultStart, DefaultEnd, resp)
    IN  IF r.exc = NoExc
        THEN Returns(r.val, Out("", NoExc, None))
        ELSE IF IsInstance(r.exc, "LookupError")
        THEN Returns(None, Out("Error: The entered zip code is invalid. Please try again.",
                               r.exc, None))
        ELSE Escapes(r.exc, None)

print_extreme_days(dataset, text) ==
    LET threshold == float(text)
        r == extreme_days(dataset, threshold.val)
    IN  IF ~is_data_loaded(dataset)
        THEN Returns(dataset, Out("The dataset is not loaded.", NoExc, None))
        ELSE IF IsInstance(threshold.exc, "ValueError")
        THEN Returns(dataset,
                     Out("Please enter a valid number for the threshold temperature.",
                         threshold.exc, None))
        ELSE IF r.exc # NoExc THEN Escapes(r.exc, r.self)
        ELSE Returns(r.self, Out("There are N days when the temperature exceeded",
                                 NoExc, r.val))

print_top_five_days(dataset) ==
    LET r == top_x_days(dataset, 5)
    IN  IF ~is_data_loaded(dataset)
        THEN Returns(dataset,
                     Out("The temperature data is not loaded. Please check dataset.",
                         NoExc, None))
        ELSE IF r.exc # NoExc THEN Escapes(r.exc, r.self)
        ELSE Returns(r.self, Out("Top 5 hottest days for", NoExc, r.val))

(* compare_average_temps: calling is_data_loaded on None is an             *)
(* AttributeError.                                                         *)
compare_average_temps(one, two) ==
    IF one = None \/ two = None THEN Escapes(Raise("AttributeError"), None)
    ELSE IF ~is_data_loaded(one) \/ ~is_data_loaded(two)
    THEN Returns(None, Out("One or both of the datasets are not loaded.", NoExc, None))
    ELSE LET avg_temp_one == average_temp(one)
             avg_temp_two == average_temp(two)
         IN  IF avg_temp_one.exc # NoExc THEN Escapes(avg_temp_one.exc, None)
             ELSE IF avg_temp_two.exc # NoExc THEN Escapes(avg_temp_two.exc, None)
             ELSE Returns(None, Out("The average temperature in",
                                    NoExc, <<avg_temp_one.val, avg_temp_two.val>>))

(* change_dates: start is assigned first, then end; the second prompt is   *)
(* reached only when the first assignment succeeded.                       *)
change_dates(dataset, new_start, resp1, new_end, resp2) ==
    LET s == start_setter(dataset, new_start, resp1)
        e == end_setter(s.self, new_end, resp2)
    IN  IF ~is_data_loaded(dataset)
        THEN Returns(dataset,
                     Out("The tempe data is not loaded. Please check dataset.",
                         NoExc, None))
        ELSE IF IsInstance(s.exc, "LookupError")
        THEN Returns(s.self, Out("Failed to change the start date", s.exc, None))
        ELSE IF s.exc # NoExc THEN Escapes(s.exc, s.self)
        ELSE IF IsInstance(e.exc, "LookupError")
        THEN Returns(e.self, Out("Failed to change the end date", e.exc, None))
        ELSE IF e.exc # NoExc THEN Escapes(e.exc, e.self)
        ELSE Returns(e.self, Out("Dates successfully changed.", NoExc, None))


---------------------------------------------------------------------------
(* menu(): one iteration of the loop per action.  A case returns the       *)
(* session after it, [one, two, pc, out]; an exception that escapes the    *)
(* case leaves menu() and main(), and the program ends with a traceback.   *)

After(one, two, r) ==
    [one |-> one, two |-> two,
     pc |-> IF r.exc = NoExc THEN "menu" ELSE "crashed", out |-> r.out]

case_1(one, two, zip_code, resp) ==
    LET r == create_dataset(zip_code, resp)
    IN  IF r.exc = NoExc THEN After(r.ds, two, r) ELSE After(one, two, r)

(* Mutant of case 2: the new dataset is assigned to dataset_one. *)
case_2_into_slot_one(one, two, zip_code, resp) ==
    LET r == create_dataset(zip_code, resp)
    IN  IF r.exc = NoExc THEN After(r.ds, two, r) ELSE After(one, two, r)

case_2(one, two, zip_code, resp) ==
    LET r == create_dataset(zip_code, resp)
    IN  IF r.exc = NoExc THEN After(one, r.ds, r) ELSE After(one, two, r)

(* Mutant of case 3: `or` instead of `and` in the guard. *)
case_3_either(one, two) ==
    IF one # None \/ two # None
    THEN After(one, two, compare_average_temps(one, two))
    ELSE After(one, two,
               Returns(None, Out("Both datasets must be loaded before comparing.",
                                 NoExc, None)))

case_3(one, two) ==
    IF one # None /\ two # None
    THEN After(one, two, compare_average_temps(one, two))
    ELSE After(one, two,
               Returns(None, Out("Both datasets must be loaded before comparing.",
                                 NoExc, None)))

case_4(one, two, text) ==
    IF one # None
    THEN LET r == print_extreme_days(one, text)
         IN  After(r.ds, two, r)
    ELSE After(one, two,
               Returns(None, Out("Dataset one must be loaded first.", NoExc, None)))

case_5(one, two) ==
    IF one # None
    THEN LET r == print_top_five_days(one)
         IN  After(r.ds, two, r)
    ELSE After(one, two,
               Returns(None, Out("Dataset one must be loaded first.", NoExc, None)))

(* change_dates works on the object the slot refers to, so the slot shows  *)
(* the object as the dialog left it, also when an exception escapes.       *)
case_6(one, two, new_start, resp1, new_end, resp2) ==
    IF one # None
    THEN LET r == change_dates(one, new_start, resp1, new_end, resp2)
         IN  After(r.ds, two, r)
    ELSE After(one, two,
               Returns(None, Out("Dataset one must be loaded first.", NoExc, None)))

case_7(one, two, new_start, resp1, new_end, resp2) ==
    IF two # None
    THEN LET r == change_dates(two, new_start, resp1, new_end, resp2)
         IN  After(one, r.ds, r)
    ELSE After(one, two,
               Returns(None, Out("Dataset two must be loaded first.", NoExc, None)))

case_9(one, two) ==
    [one |-> one, two |-> two, pc |-> "exited",
     out |-> Out("Goodbye! Thank you for using the database", NoExc, None)]

(* Mutant of the default case: it leaves the loop like case 9. *)
case_default_breaks(one, two) ==
    [one |-> one, two |-> two, pc |-> "exited",
     out |-> Out("That wasn't a valid selection", NoExc, None)]

case_default(one, two) ==
    After(one, two, Returns(None, Out("That wasn't a valid selection", NoExc, None)))

except_ValueError(one, two) ==
    After(one, two, Returns(None, Out("Please enter a number only", NoExc, None)))

(* The text typed at the prompt converts to the option n. *)
Chooses(text, n) == int(text).exc = NoExc /\ int(text).val = n

Options == {1, 2, 3, 4, 5, 6, 7, 9}

Becomes(text, after) ==
    /\ inp' = text
    /\ dataset_one' = after.one
    /\ dataset_two' = after.two
    /\ pc' = after.pc
    /\ out' = after.out
    /\ UNCHANGED objVars

(* When the start assignment fails the dialog returns before the second   *)
(* prompt: there is no second input and no second request to choose.      *)
NotAsked(new_end, resp2) ==
    new_end = DefaultEnd /\ resp2 = Response("connection_error", <<>>, <<>>)

Option1 ==
    /\ pc = "menu"
    /\ \E text \in MenuInputs :
          /\ Chooses(text, 1)
          /\ \E zip_code \in Zips, resp \in ArchiveResponses :
                Becomes(text, case_1(dataset_one, dataset_two, zip_code, resp))

Option2 ==
    /\ pc = "menu"
    /\ \E text \in MenuInputs :
          /\ Chooses(text, 2)
          /\ \E zip_code \in Zips, resp \in ArchiveResponses :
                Becomes(text, case_2(dataset_one, dataset_two, zip_code, resp))

Option3 ==
    /\ pc = "menu"
    /\ \E text \in MenuInputs :
          /\ Chooses(text, 3)
          /\ Becomes(text, case_3(dataset_one, dataset_two))

Option4 ==
    /\ pc = "menu"
    /\ \E text \in MenuInputs :
          /\ Chooses(text, 4)
          /\ \E threshold \in ThresholdInputs :
                Becomes(text, case_4(dataset_one, dataset_two, threshold))

Option5 ==
    /\ pc = "menu"
    /\ \E text \in MenuInputs :
          /\ Chooses(text, 5)
          /\ Becomes(text, case_5(dataset_one, dataset_two))

Option6 ==
    /\ pc = "menu"
    /\ \E text \in MenuInputs :
          /\ Chooses(text, 6)
          /\ \E new_start \in Dates, new_end \in Dates,
                resp1 \in ArchiveResponses, resp2 \in ArchiveResponses :
                /\ resp1 \in FailedResponses => NotAsked(new_end, resp2)
                /\ Becomes(text, case_6(dataset_one, dataset_two,
                                        new_start, resp1, new_end, resp2))

Option7 ==
    /\ pc = "menu"
    /\ \E text \in MenuInputs :
          /\ Chooses(text, 7)
          /\ \E new_start \in Dates, new_end \in Dates,
                resp1 \in ArchiveResponses, resp2 \in ArchiveResponses :
                /\ resp1 \in FailedResponses => NotAsked(new_end, resp2)
                /\ Becomes(text, case_7(dataset_one, dataset_two,
                                        new_start, resp1, new_end, resp2))

Quit ==
    /\ pc = "menu"
    /\ \E text \in MenuInputs :
          /\ Chooses(text, 9)
          /\ Becomes(text, case_9(dataset_one, dataset_two))

InvalidSelection ==
    /\ pc = "menu"
    /\ \E text \in MenuInputs :
          /\ int(text).exc = NoExc
          /\ int(text).val \notin Options
          /\ Becomes(text, case_default(dataset_one, dataset_two))

NotANumber ==
    /\ pc = "menu"
    /\ \E text \in MenuInputs :
          /\ IsInstance(int(text).exc, "ValueError")
          /\ Becomes(text, except_ValueError(dataset_one, dataset_two))

NoCall == [op |-> "none", arg |-> None, pre |-> None]
NoRet == [exc |-> NoExc, val |-> None]

Init ==
    /\ dataset_one = None
    /\ dataset_two = None
    /\ pc = "menu"
    /\ inp = <<>>
    /\ out = Out("Hi, let's explore some historical temperatures.", NoExc, None)
    /\ self = None
    /\ call = NoCall
    /\ ret = NoRet

Next ==
    \/ Option1
    \/ Option2
    \/ Option3
    \/ Option4
    \/ Option5
    \/ Option6
    \/ Option7
    \/ Quit
    \/ InvalidSelection
    \/ NotANumber

Spec == Init /\ [][Next]_vars


---------------------------------------------------------------------------
(* SpecObj: one dataset object, one call per action.  call records the     *)
(* call, its arguments and the object as it was before (pre); ret is the   *)
(* exception raised, if any.                                                *)

Called(op, arg, pre) == [op |-> op, arg |-> arg, pre |-> pre]

Construct ==
    \E zip_code \in Zips, start \in Dates, end \in Dates, resp \in ArchiveResponses :
        LET r == __init__(zip_code, start, end, resp)
        IN  /\ call' = Called("__init__",
                              [zip_code |-> zip_code, start |-> start, end |-> end,
                               resp |-> resp], self)
            /\ self' = IF r.exc = NoExc THEN r.val ELSE self
            /\ ret' = [exc |-> r.exc, val |-> None]
            /\ UNCHANGED sessionVars

SetStart ==
    /\ self # None
    /\ \E value \in Dates, resp \in ArchiveResponses :
        LET r == start_setter(self, value, resp)
        IN  /\ call' = Called("start", [value |-> value, resp |-> resp], self)
            /\ self' = r.self
            /\ ret' = [exc |-> r.exc, val |-> None]
            /\ UNCHANGED sessionVars

SetEnd ==
    /\ self # None
    /\ \E value \in Dates, resp \in ArchiveResponses :
        LET r == end_setter(self, value, resp)
        IN  /\ call' = Called("end", [value |-> value, resp |-> resp], self)
            /\ self' = r.self
            /\ ret' = [exc |-> r.exc, val |-> None]
            /\ UNCHANGED sessionVars

InitIdle ==
    /\ dataset_one = None
    /\ dataset_two = None
    /\ pc = "idle"
    /\ inp = <<>>
    /\ out = Out("", NoExc, None)

InitObj ==
    /\ InitIdle
    /\ self = None
    /\ call = NoCall
    /\ ret = NoRet

NextObj ==
    \/ Construct
    \/ SetStart
    \/ SetEnd

SpecObj == InitObj /\ [][NextObj]_vars

---------------------------------------------------------------------------
(* SpecFn: the derived queries, called on every dataset the constructor    *)
(* can build from a response of up to MaxLen dates and up to MaxLen         *)
(* temperatures in 0..MaxTemp.                                             *)

RECURSIVE SeqsUpTo(_, _)
SeqsUpTo(S, n) ==
    IF n = 0 THEN { <<>> }
    ELSE LET shorter == SeqsUpTo(S, n - 1)
         IN  shorter \cup { Append(q, x) : q \in shorter, x \in S }

Temps == 0..MaxTemp
Thresholds == (0 - 1)..(MaxTemp + 1)
NumDays == (0 - MaxN)..MaxN

FnResponses ==
    { Response("ok", [i \in 1..k |-> i], temps) :
        k \in 0..MaxLen, temps \in SeqsUpTo({ Num(v) : v \in Temps }, MaxLen) }

ExtremeDays ==
    \E threshold \in Thresholds :
        LET r == extreme_days(self, threshold)
        IN  /\ call' = Called("extreme_days", threshold, self)
            /\ self' = r.self
            /\ ret' = [exc |-> r.exc, val |-> r.val]
            /\ UNCHANGED sessionVars

TopXDays ==
    \E num_days \in NumDays :
        LET r == top_x_days(self, num_days)
        IN  /\ call' = Called("top_x_days", num_days, self)
            /\ self' = r.self
            /\ ret' = [exc |-> r.exc, val |-> r.val]
            /\ UNCHANGED sessionVars

AverageTemp ==
    LET r == average_temp(self)
    IN  /\ call' = Called("average_temp", None, self)
        /\ ret' = [exc |-> r.exc, val |-> r.val]
        /\ UNCHANGED <<self, sessionVars>>

InitFn ==
    /\ InitIdle
    /\ self \in { __init__("98101", DefaultStart, DefaultEnd, resp).val :
                    resp \in FnResponses }
    /\ call = NoCall
    /\ ret = NoRet

NextFn ==
    \/ ExtremeDays
    \/ TopXDays
    \/ AverageTemp

SpecFn == InitFn /\ [][NextFn]_vars


---------------------------------------------------------------------------
(* Properties *)

Slots == {dataset_one, dataset_two} \ {None}

InvalidZipMsg == "Error: The entered zip code is invalid. Please try again."
BothRequiredMsg == "Both datasets must be loaded before comparing."
GoodbyeMsg == "Goodbye! Thank you for using the database"

(* The exception each failure of the load raises inside _load_temps. *)
FailureOf(kind) ==
    CASE kind = "connection_error" -> "ConnectionError"
      [] kind = "bad_json" -> "JSONDecodeError"
      [] kind = "no_daily" -> "KeyError"
      [] OTHER -> "none"

IsSetterCall == call.op \in {"start", "end"}
ReloadFailed == IsSetterCall /\ call.arg.resp.kind # "ok"

(* C1 (SpecObj): when the reload triggered by assigning start or end       *)
(* fails (the HTTP call fails, the body is no JSON, or a field is          *)
(* missing), the dataset's start, end and payload are afterwards what      *)
(* they were before the assignment, and the assignment raises the          *)
(* date-range error (LookupError) that carries the underlying cause.       *)
C1_FailedAssignmentRollsBack ==
    ReloadFailed =>
        /\ self.start = call.pre.start
        /\ self.end = call.pre.end
        /\ self.temp_list = call.pre.temp_list
        /\ self.temp_list_is_none = call.pre.temp_list_is_none
        /\ ret.exc.type = "LookupError"
        /\ ret.exc.cause = FailureOf(call.arg.resp.kind)

(* A failed assignment of a start date other than the current one, to a    *)
(* dataset that holds a payload.                                           *)
C1_Witness ==
    /\ call.op = "start"
    /\ call.arg.resp.kind = "bad_json"
    /\ call.arg.value # call.pre.start
    /\ Len(call.pre.temp_list) > 0
    /\ ret.exc.type = "LookupError"

(* C2 (Spec): between menu operations, every dataset in a slot holds a     *)
(* payload, and that payload is the answer to the request made for the     *)
(* dataset's current latitude, longitude, start and end.                   *)
C2_PayloadIsForCurrentRange ==
    \A d \in Slots : is_data_loaded(d) /\ d.loaded_for = Params(d)

(* The end assignment of a change-dates dialog failed after its start      *)
(* assignment had moved the start date.                                    *)
C2_Witness ==
    /\ out.msg = "Failed to change the end date"
    /\ dataset_one # None
    /\ dataset_one.start # DefaultStart
    /\ dataset_one.end = DefaultEnd

Unusable(zip_code) ==
    LET loc == zip_to_loc_info(zip_code)
    IN  loc[1] \in {"NaN", "None"} \/ loc[2] \in {"NaN", "None"}

(* C3 (SpecObj): for every postal code for which the geocoder yields no    *)
(* usable coordinates, NaN coordinates or the (None, None, None) triple,   *)
(* construction fails with LookupError (the location-not-found error the   *)
(* session catches) and with no other error.                               *)
C3_UnresolvedZipRaisesLookupError ==
    (call.op = "__init__" /\ Unusable(call.arg.zip_code)) =>
        ret.exc.type = "LookupError"

(* C4 (Spec): the session ends only by the quit option: it is at the menu  *)
(* prompt, or it has left the loop after option 9 with the goodbye         *)
(* message; nothing else terminates it.                                    *)
C4_SessionEndsOnlyByQuit ==
    \/ pc = "menu"
    \/ pc = "exited" /\ Chooses(inp, 9) /\ out.msg = GoodbyeMsg

(* A menu input that is not a number, or a number other than 1-7 and 9. *)
InvalidMenuInput(text) ==
    \/ int(text).exc # NoExc
    \/ int(text).val \notin ((1..7) \cup {9})

InvalidInputMsgs == {"That wasn't a valid selection", "Please enter a number only"}

(* C5 (Spec): every menu input that is non-numeric or an integer other     *)
(* than 1-7 and 9 is reported as invalid, leaves slot one and slot two     *)
(* (and so the datasets they hold) unchanged, and the menu is shown again. *)
C5_InvalidInputHasNoEffect ==
    [][ (pc = "menu" /\ InvalidMenuInput(inp')) =>
            /\ out'.msg \in InvalidInputMsgs
            /\ dataset_one' = dataset_one
            /\ dataset_two' = dataset_two
            /\ pc' = "menu" ]_vars

(* The number 8 was typed while both slots held a dataset. *)
C5_Witness ==
    /\ inp = <<"8">>
    /\ out.msg = "That wasn't a valid selection"
    /\ dataset_one # None
    /\ dataset_two # None
    /\ pc = "menu"

(* C6 (Spec): in every reachable state of a dataset, start <= end. *)
C6_StartNotAfterEnd ==
    \A d \in Slots : d.start <= d.end


(* The payload a query was called on, and properties of a result that are  *)
(* stated without the sort or the filter of the model.  The dates of a     *)
(* payload are distinct, so a pair occurs once and PosIn is its index.     *)
Payload == call.pre.temp_list
Range(q) == { q[i] : i \in 1..Len(q) }
PosIn(q, p) == CHOOSE i \in 1..Len(q) : q[i] = p
TempOf(p) == p[2][1]

(* The pairs of res are pairs of payload, none twice. *)
PairsOf(res, payload) ==
    /\ Range(res) \subseteq Range(payload)
    /\ \A i, j \in 1..Len(res) : i # j => res[i] # res[j]

(* res descends by temperature, equal temperatures in payload order. *)
DescendingStable(res, payload) ==
    \A i, j \in 1..Len(res) :
        i < j => \/ TempOf(res[i]) > TempOf(res[j])
                 \/ /\ TempOf(res[i]) = TempOf(res[j])
                    /\ PosIn(payload, res[i]) < PosIn(payload, res[j])

(* res keeps the order of payload. *)
InPayloadOrder(res, payload) ==
    \A i, j \in 1..Len(res) :
        i < j => PosIn(payload, res[i]) < PosIn(payload, res[j])

C9_CompareNeedsBothSlots ==
    [][ /\ (pc = "menu" /\ Chooses(inp', 3)
              /\ (dataset_one = None \/ dataset_two = None)) =>
                 /\ out'.msg = BothRequiredMsg
                 /\ dataset_one' = dataset_one
                 /\ dataset_two' = dataset_two
                 /\ pc' = "menu"
        /\ (out'.msg = "The average temperature in") =>
                 /\ Chooses(inp', 3)
                 /\ dataset_one # None
                 /\ dataset_two # None ]_vars

(* Option 3 was declined with exactly one slot loaded. *)
C9_Witness ==
    /\ Chooses(inp, 3)
    /\ out.msg = BothRequiredMsg
    /\ dataset_one # None
    /\ dataset_two = None

(* C10 as claimed (Spec): when option 1 or 2 is chosen and creation fails  *)
(* because the zip code does not resolve, both slots hold afterwards what  *)
(* they held before.                                                       *)
C10_AsClaimed ==
    [][ (pc = "menu" /\ (Chooses(inp', 1) \/ Chooses(inp', 2))
           /\ out'.msg = InvalidZipMsg) =>
              /\ dataset_one' = dataset_one
              /\ dataset_two' = dataset_two ]_vars

(* C10 as amended (Spec): option 1 never affects slot two and option 2     *)
(* never affects slot one; when create_dataset reports the zip code as     *)
(* invalid, the chosen slot is empty afterwards, whatever it held before.  *)
C10_FailedCreateEmptiesSlot ==
    [][ pc = "menu" =>
          /\ Chooses(inp', 1) => dataset_two' = dataset_two
          /\ Chooses(inp', 2) => dataset_one' = dataset_one
          /\ (Chooses(inp', 1) /\ out'.msg = InvalidZipMsg) => dataset_one' = None
          /\ (Chooses(inp', 2) /\ out'.msg = InvalidZipMsg) => dataset_two' = None
      ]_vars

(* Option 2 failed on the zip code while slot one held a dataset. *)
C10_Witness ==
    /\ Chooses(inp, 2)
    /\ out.msg = InvalidZipMsg
    /\ dataset_two = None
    /\ dataset_one # None

=============================================================================
